---- MODULE Spec2Model ----
(***************************************************************************)
(* RDFBodyPartsDetector (gpu/people/src/bodyparts_detector.cpp): the       *)
(* constructor, allocate_buffers and process(), with the host-side blob    *)
(* aggregation pass (lines 183-240) modelled statement by statement.       *)
(*                                                                         *)
(* Abstractions:                                                           *)
(*  - point coordinates are small integers; float sums of them are exact.  *)
(*    The float division of lines 222-224 is modelled as the exact         *)
(*    quotient, a reduced fraction <<numerator, denominator>>.             *)
(*  - the accelerator stages (classification, smoothing, component         *)
(*    labelling) are the environment: their downloaded results, the label  *)
(*    grid and the component-id grid, are the inputs of a frame.           *)
(*  - vectors are functions over 0..size-1 (C++ indexing); the lists of    *)
(*    the blob matrix are sequences, list position p being element p+1.    *)
(***************************************************************************)
EXTENDS Integers, Sequences, FiniteSets, TLC

\* the rows and cols arguments of the constructor, which every depth frame
\* carries too: the 2 x 2 frame of the specification's scenarios
Rows == 2
Cols == 2

\* ---------------------------------------------------------------- bounds
\* NUM_PARTS, the number of body-part labels (a header constant), scaled down
NumParts == 2
\* MAX_CLUST_SIZE is 25000 in the source (line 52); scaled to the model's frame
MAX_CLUST_SIZE == 3
\* largest min_pts_per_cluster a caller passes
MaxMinPts == 3
\* longest tree_files list handed to the constructor
MaxFiles == 2
\* process() calls explored in sequence on one detector
MaxCalls == 2

N == Rows * Cols
Pixels == 0 .. (N - 1)
Labels == 0 .. (NumParts - 1)
Sentinel == -1

\* ---------------------------------------------------------------- values
Pt(x, y, z) == [x |-> x, y |-> y, z |-> z]
Zero3 == Pt(0, 0, 0)

Abs(n) == IF n < 0 THEN -n ELSE n

RECURSIVE GCD(_, _)
GCD(a, b) == IF b = 0 THEN a ELSE GCD(b, a % b)

\* the exact quotient n / d (d > 0) as a reduced fraction
Div(n, d) ==
  LET g == GCD(Abs(n), d)
  IN  <<n \div g, d \div g>>

\* std::vector<T>::resize(n): keeps the elements it has, value-initialises the rest
Resize(vec, n, fill) ==
  [i \in 0 .. (n - 1) |-> IF i \in DOMAIN vec THEN vec[i] ELSE fill]

\* std::fill(v.begin(), v.end(), val)
Fill(vec, val) == [i \in DOMAIN vec |-> val]

EmptyVec == [i \in {} |-> 0]

\* ------------------------------------------------------ allocate_buffers
\* the blob matrix with every label's list empty
EmptyMatrix == [l \in Labels |-> <<>>]

\* mutant of ClearLists: only the first list is cleared
ClearListsFirstOnly(bm) == [l \in DOMAIN bm |-> IF l = 0 THEN <<>> ELSE bm[l]]

\* lines 142-146 and 192-193: every list the matrix has is cleared
ClearLists(bm) == [l \in DOMAIN bm |-> <<>>]

\* lines 124-147 on the host buffers; b is the record of the detector's buffers
allocate_buffers(b, rows, cols) ==
  [b EXCEPT !.lmap_host_     = Resize(@, rows * cols, 0),
            !.dst_labels_    = Resize(@, rows * cols, 0),
            !.region_sizes_  = Resize(@, rows * cols + 1, 0),
            !.remap_         = Resize(@, rows * cols, 0),
            !.means_storage_ = Resize(@, rows * cols + 1, Zero3),
            !.blob_matrix_   = ClearLists(Resize(@, NumParts, <<>>))]

\* the buffers of a detector object before its constructor body has run: every
\* vector, the blob matrix included, has size 0
NoBuffers ==
  [lmap_host_ |-> EmptyVec, dst_labels_ |-> EmptyVec, region_sizes_ |-> EmptyVec,
   remap_ |-> EmptyVec, means_storage_ |-> EmptyVec, blob_matrix_ |-> EmptyVec]

\* the buffers when the constructor returns (line 86)
ConstructedBuffers == allocate_buffers(NoBuffers, Rows, Cols)

\* ------------------------------------------------- aggregation, lines 183-237
\* mutant of ResetScratch: the counts and the sums are not refilled with 0
ResetScratchKeepsSums(b) ==
  [b EXCEPT !.remap_       = Fill(@, -1),
            !.blob_matrix_ = ClearLists(@)]

\* lines 185-193: remap filled with -1, counts and sums with 0, lists cleared.
\* means = &means_storage_[3] and rsizes = &region_sizes_[1]: component cc owns
\* slot cc + 1 of both arrays, the sentinel -1 owns slot 0.
ResetScratch(b) ==
  [b EXCEPT !.remap_         = Fill(@, -1),
            !.region_sizes_  = Fill(@, 0),
            !.means_storage_ = Fill(@, Zero3),
            !.blob_matrix_   = ClearLists(@)]

\* lines 199-202: the body of the first loop for one pixel
Accumulate(b, cc, p) ==
  [b EXCEPT !.means_storage_[cc + 1] = Pt(@.x + p.x, @.y + p.y, @.z + p.z),
            !.region_sizes_[cc + 1]  = @ + 1]

\* lines 195-203: the first loop, k = 0 .. dst_labels_.size() - 1
RECURSIVE Pass1(_, _, _)
Pass1(k, b, cloud) ==
  IF k >= N THEN b
  ELSE Pass1(k + 1, Accumulate(b, b.dst_labels_[k], cloud[k]), cloud)

\* mutant of ClearInvalid: line 205 is missing
ClearInvalidSkipped(b) == b

\* line 205: means[-1].z = 0
ClearInvalid(b) == [b EXCEPT !.means_storage_[0].z = 0]

\* mutant of Valid: the lower bound is not tested
ValidNoMin(b, cc, min_pts, max_size) ==
  /\ b.means_storage_[cc + 1].z # 0
  /\ b.region_sizes_[cc + 1] <= max_size

\* line 212: the condition under which pixel k's component is materialised
Valid(b, cc, min_pts, max_size) ==
  /\ b.means_storage_[cc + 1].z # 0
  /\ min_pts <= b.region_sizes_[cc + 1]
  /\ b.region_sizes_[cc + 1] <= max_size

\* mutant of Centroid: the sums are stored undivided
CentroidOfSum(b, cc) ==
  LET m == b.means_storage_[cc + 1]
  IN  <<Div(m.x, 1), Div(m.y, 1), Div(m.z, 1)>>

\* lines 222-224: the centroid of component cc
Centroid(b, cc) ==
  LET m == b.means_storage_[cc + 1]
      c == b.region_sizes_[cc + 1]
  IN  <<Div(m.x, c), Div(m.y, c), Div(m.z, c)>>

\* lines 218-225: the blob created for component cc under label; id and lid
\* are written by the finalisation loop
NewBlob(b, label, cc) ==
  [label |-> label, mean |-> Centroid(b, cc), indices |-> <<>>, id |-> -1, lid |-> -1]

\* mutant of RemapLookup: the table is read under the label
RemapLookupByLabel(remap, label, cc) == remap[label]

\* line 214: ccindex = remap_[cc]
RemapLookup(remap, label, cc) == remap[cc]

\* line 217: ccindex = blob_matrix_[label].size()
NextIndex(bm, label) == Len(bm[label])

\* lines 209-228: the body of the second loop for pixel k. s = [b, ub]: the
\* buffers, and whether an access outside a container has happened (undefined
\* behaviour: the model records it and leaves the buffers as they are).
Pass2Step(s, k, min_pts, max_size) ==
  LET b     == s.b
      label == b.lmap_host_[k]
      cc    == b.dst_labels_[k]
  IN  IF ~Valid(b, cc, min_pts, max_size) THEN s
      ELSE IF cc \notin DOMAIN b.remap_ THEN [s EXCEPT !.ub = TRUE]
      ELSE
        LET found   == RemapLookup(b.remap_, label, cc)
            ccindex == IF found = -1 THEN NextIndex(b.blob_matrix_, label) ELSE found
            b1 == IF found = -1
                  THEN [b EXCEPT !.blob_matrix_[label] = Append(@, NewBlob(b, label, cc)),
                                 !.remap_[cc] = ccindex]
                  ELSE b
        IN  IF ccindex < 0 \/ ccindex >= Len(b1.blob_matrix_[label])
            THEN [s EXCEPT !.b = b1, !.ub = TRUE]
            ELSE [s EXCEPT !.b = [b1 EXCEPT !.blob_matrix_[label][ccindex + 1].indices
                                              = Append(@, k)]]

\* lines 207-229: the second loop
RECURSIVE Pass2(_, _, _, _)
Pass2(k, s, min_pts, max_size) ==
  IF k >= N THEN s
  ELSE Pass2(k + 1, Pass2Step(s, k, min_pts, max_size), min_pts, max_size)

\* mutant of Number: the counter restarts in every list (id = lid)
NumberPerList(blob, id, p) == [blob EXCEPT !.id = p, !.lid = p]

\* mutant of Number: lid takes the global counter
NumberGlobalLid(blob, id, p) == [blob EXCEPT !.id = id, !.lid = id]

\* lines 235-236 for the blob at 0-based position p of a list when the counter is id
Number(blob, id, p) == [blob EXCEPT !.id = id, !.lid = p]

\* lines 231-237: id runs over the lists in label order, lid is the position
RECURSIVE AssignIds(_, _, _)
AssignIds(label, bm, id) ==
  IF label >= NumParts THEN bm
  ELSE AssignIds(label + 1,
                 [bm EXCEPT ![label] =
                    [p \in 1 .. Len(bm[label]) |-> Number(bm[label][p], id + p - 1, p - 1)]],
                 id + Len(bm[label]))

\* lines 183-240 on buffers that hold the frame's downloaded grids.
\* label_skeleton::buildRelations (line 239) writes only the relation fields of
\* the blobs, which the model does not carry.
Aggregate(b, cloud, min_pts, max_size) ==
  LET s == Pass2(0, [b |-> ClearInvalid(Pass1(0, ResetScratch(b), cloud)), ub |-> FALSE],
                 min_pts, max_size)
  IN  [s EXCEPT !.b.blob_matrix_ = AssignIds(0, @, 0)]

\* lines 149-240: a whole successful process() call on buffers b. labels and
\* comps are what lines 170 and 177 download into lmap_host_ and dst_labels_.
ProcessFrame(b, labels, comps, cloud, min_pts, max_size) ==
  LET b0 == allocate_buffers(b, Rows, Cols)
      b1 == [b0 EXCEPT !.lmap_host_ = labels, !.dst_labels_ = comps]
  IN  Aggregate(b1, cloud, min_pts, max_size)

\* ------------------------------------------------------------------ state
VARIABLES
  pc,                \* where the detector object is in its life
  tree_files,        \* the constructor's argument: TRUE marks a file loadTree can read
  ti,                \* the constructor's loop index i (line 63)
  impl_,             \* the classifier object: allocated, and how many trees it holds
  color_map_,        \* TRUE once the palette is uploaded (line 84)
  max_cluster_size_, \* set by the constructor's initialiser list (line 56)
  lmap_host_, dst_labels_, region_sizes_, remap_, means_storage_, blob_matrix_,
  cloud_,            \* the cloud argument of the last process() call
  min_pts_,          \* the min_pts_per_cluster argument of the last process() call
  ncalls,            \* process() calls made so far
  last_call,         \* "none", "ok" or "failed": how the last process() call ended
  ub                 \* TRUE once a call has indexed outside a container

vars ==
  <<pc, tree_files, ti, impl_, color_map_, max_cluster_size_, lmap_host_, dst_labels_,
    region_sizes_, remap_, means_storage_, blob_matrix_, cloud_, min_pts_, ncalls,
    last_call, ub>>

bufs == <<lmap_host_, dst_labels_, region_sizes_, remap_, means_storage_, blob_matrix_>>
ctor == <<tree_files, ti, impl_, color_map_, max_cluster_size_>>
call == <<cloud_, min_pts_, ncalls, last_call, ub>>

Buffers ==
  [lmap_host_ |-> lmap_host_, dst_labels_ |-> dst_labels_,
   region_sizes_ |-> region_sizes_, remap_ |-> remap_,
   means_storage_ |-> means_storage_, blob_matrix_ |-> blob_matrix_]

SetBuffers(b) ==
  /\ lmap_host_' = b.lmap_host_
  /\ dst_labels_' = b.dst_labels_
  /\ region_sizes_' = b.region_sizes_
  /\ remap_' = b.remap_
  /\ means_storage_' = b.means_storage_
  /\ blob_matrix_' = b.blob_matrix_

NoImpl == [allocated |-> FALSE, trees |-> 0]
NoCloud == [k \in Pixels |-> Zero3]

\* ------------------------------------------------------------ frame inputs
ScenarioAPoints == <<Pt(0, 0, 0), Pt(2, 0, 0), Pt(5, 5, 5), Pt(7, 5, 5)>>
ScenarioACloud == [k \in Pixels |-> IF k < 4 THEN ScenarioAPoints[k + 1] ELSE Zero3]
AltCloud == [k \in Pixels |-> IF k % 2 = 0 THEN Pt(5, 5, 5) ELSE Pt(1, 3, -5)]

\* the first half of the frame at (5,5,5), the second at (1,3,-5)
HalfCloud == [k \in Pixels |-> IF 2 * k < N THEN Pt(5, 5, 5) ELSE Pt(1, 3, -5)]

Clouds == {ScenarioACloud, AltCloud, HalfCloud}
SmallClouds == {ScenarioACloud, AltCloud, HalfCloud}

LabelGrids == [Pixels -> Labels]
ScenarioALabels == [k \in Pixels |-> IF 2 * k < N THEN 0 ELSE 1]
AltLabels == [k \in Pixels |-> IF k = 0 THEN 0 ELSE 1]
SmallLabelGrids == {ScenarioALabels, AltLabels}
CompGrids == [Pixels -> Sentinel .. (N - 1)]
SmallCompGrids == [Pixels -> Sentinel .. 1]
MinPts == 1 .. MaxMinPts
SmallMinPts == {2}

\* what the component labeller guarantees of its output (computeEdges joins
\* only pixels of one label): a component never straddles two labels
Homogeneous(labels, comps) ==
  \A j, k \in Pixels :
    (comps[j] = comps[k] /\ comps[j] # Sentinel) => labels[j] = labels[k]

FileLists == UNION {[1 .. n -> BOOLEAN] : n \in 0 .. MaxFiles}

\* ------------------------------------------------------------------ actions
Init ==
  /\ pc = "none"
  /\ tree_files = <<>>
  /\ ti = 0
  /\ impl_ = NoImpl
  /\ color_map_ = FALSE
  /\ max_cluster_size_ = 0
  /\ lmap_host_ = EmptyVec /\ dst_labels_ = EmptyVec /\ region_sizes_ = EmptyVec
  /\ remap_ = EmptyVec /\ means_storage_ = EmptyVec /\ blob_matrix_ = EmptyVec
  /\ cloud_ = NoCloud
  /\ min_pts_ = 0
  /\ ncalls = 0
  /\ last_call = "none"
  /\ ub = FALSE

\* a detector whose constructor has returned, built from one readable tree file
InitReady ==
  /\ pc = "ready"
  /\ tree_files = <<>>
  /\ ti = 0
  /\ impl_ = [allocated |-> TRUE, trees |-> 1]
  /\ color_map_ = TRUE
  /\ max_cluster_size_ = MAX_CLUST_SIZE
  /\ lmap_host_ = ConstructedBuffers.lmap_host_
  /\ dst_labels_ = ConstructedBuffers.dst_labels_
  /\ region_sizes_ = ConstructedBuffers.region_sizes_
  /\ remap_ = ConstructedBuffers.remap_
  /\ means_storage_ = ConstructedBuffers.means_storage_
  /\ blob_matrix_ = ConstructedBuffers.blob_matrix_
  /\ cloud_ = NoCloud
  /\ min_pts_ = 0
  /\ ncalls = 0
  /\ last_call = "none"
  /\ ub = FALSE

\* lines 55-61 when the assertion of line 59 passes or is compiled out (NDEBUG):
\* the initialiser list runs and the classifier object is allocated
CtorEnter(files) ==
  /\ pc = "none"
  /\ tree_files' = files
  /\ max_cluster_size_' = MAX_CLUST_SIZE
  /\ impl_' = [allocated |-> TRUE, trees |-> 0]
  /\ ti' = 0
  /\ pc' = "load"
  /\ UNCHANGED <<color_map_, bufs, call>>

\* line 59 in a build with assertions, on an empty list: the program aborts
CtorAssertFails ==
  /\ pc = "none"
  /\ tree_files' = <<>>
  /\ max_cluster_size_' = MAX_CLUST_SIZE
  /\ pc' = "aborted"
  /\ UNCHANGED <<ti, impl_, color_map_, bufs, call>>

\* lines 63-72, one iteration: loadTree returns and the tree is stored, or throws
CtorLoadTree ==
  /\ pc = "load"
  /\ ti < Len(tree_files)
  /\ IF tree_files[ti + 1]
     THEN /\ impl_' = [impl_ EXCEPT !.trees = @ + 1]
          /\ ti' = ti + 1
          /\ pc' = pc
     ELSE /\ pc' = "throwing"
          /\ UNCHANGED <<impl_, ti>>
  /\ UNCHANGED <<tree_files, color_map_, max_cluster_size_, bufs, call>>

\* the exception leaves the constructor: the members built so far are destroyed
CtorUnwind ==
  /\ pc = "throwing"
  /\ impl_' = NoImpl
  /\ pc' = "failed"
  /\ UNCHANGED <<tree_files, ti, color_map_, max_cluster_size_, bufs, call>>

\* lines 74-87: the palette is uploaded and the buffers are allocated
CtorFinish ==
  /\ pc = "load"
  /\ ti = Len(tree_files)
  /\ color_map_' = TRUE
  /\ SetBuffers(allocate_buffers(Buffers, Rows, Cols))
  /\ tree_files' = <<>>
  /\ ti' = 0
  /\ pc' = "ready"
  /\ UNCHANGED <<impl_, max_cluster_size_, call>>

\* lines 149-240: a process() call that returns
Process(labels, comps, cloud, min_pts) ==
  /\ pc = "ready"
  /\ ncalls < MaxCalls
  /\ Homogeneous(labels, comps)
  /\ LET r == ProcessFrame(Buffers, labels, comps, cloud, min_pts, max_cluster_size_)
     IN  /\ SetBuffers(r.b)
         /\ ub' = (ub \/ r.ub)
  /\ cloud_' = cloud
  /\ min_pts_' = min_pts
  /\ ncalls' = ncalls + 1
  /\ last_call' = "ok"
  /\ UNCHANGED <<pc, ctor>>

\* lines 149-177: a process() call that an accelerator step ends with an
\* exception. stage "allocate": thrown inside allocate_buffers by a device
\* allocation (lines 127-137), before the blob matrix is touched; "classify":
\* thrown by lines 163-170, after allocate_buffers has returned; "components":
\* thrown by lines 174-177, after the labels were downloaded into lmap_host_.
ProcessFails(stage, labels) ==
  /\ pc = "ready"
  /\ ncalls < MaxCalls
  /\ CASE stage = "allocate" -> UNCHANGED bufs
       [] stage = "classify" -> SetBuffers(allocate_buffers(Buffers, Rows, Cols))
       [] stage = "components" ->
            SetBuffers([allocate_buffers(Buffers, Rows, Cols) EXCEPT !.lmap_host_ = labels])
  /\ ncalls' = ncalls + 1
  /\ last_call' = "failed"
  /\ UNCHANGED <<pc, ctor, cloud_, min_pts_, ub>>

FailStages == {"allocate", "classify", "components"}

Construct ==
  \/ \E files \in FileLists : CtorEnter(files)
  \/ CtorAssertFails
  \/ CtorLoadTree
  \/ CtorUnwind
  \/ CtorFinish

ProcessReturns ==
  \E labels \in SmallLabelGrids, comps \in SmallCompGrids :
    /\ Homogeneous(labels, comps)
    /\ \E cloud \in SmallClouds, min_pts \in SmallMinPts :
         Process(labels, comps, cloud, min_pts)

ProcessThrows ==
  \E stage \in FailStages, labels \in SmallLabelGrids : ProcessFails(stage, labels)

Next ==
  \/ Construct
  \/ ProcessReturns
  \/ ProcessThrows

\* the life of one detector: construction, then a sequence of process() calls
Spec == Init /\ [][Next]_vars

NextFrame ==
  /\ ncalls = 0
  /\ \E labels \in LabelGrids, comps \in CompGrids :
       /\ Homogeneous(labels, comps)
       /\ \E cloud \in Clouds, min_pts \in MinPts :
            Process(labels, comps, cloud, min_pts)

\* one frame, drawn from the full input space, on a freshly constructed detector
SpecFrame == InitReady /\ [][NextFrame]_vars

\* ------------------------------------------------------------ observations
\* a successful process() call was the last thing that happened
Done == last_call = "ok"

\* the aggregate preconditions on the thresholds
Pre == 0 <= min_pts_ /\ min_pts_ < max_cluster_size_

\* <<label, position>> of every blob of the matrix (position counted from 1)
BlobRefs ==
  UNION {{<<l, p>> : p \in 1 .. Len(blob_matrix_[l])} : l \in DOMAIN blob_matrix_}
BlobAt(r) == blob_matrix_[r[1]][r[2]]
Members(r) == {BlobAt(r).indices[i] : i \in 1 .. Len(BlobAt(r).indices)}

\* how often pixel k occurs in the member lists of the matrix
Occurrences(k) ==
  Cardinality({<<r, i>> \in BlobRefs \X (1 .. N) :
                 i <= Len(BlobAt(r).indices) /\ BlobAt(r).indices[i] = k})

\* the pixels of component cc in the frame, and their number
CompPixels(cc) == {j \in Pixels : dst_labels_[j] = cc}
CompSize(cc) == Cardinality(CompPixels(cc))
InBounds(cc) == min_pts_ <= CompSize(cc) /\ CompSize(cc) <= max_cluster_size_

SetMin(S) == CHOOSE m \in S : \A x \in S : m <= x

RECURSIVE SumOver(_, _)
SumOver(S, f) ==
  IF S = {} THEN 0
  ELSE LET k == CHOOSE x \in S : TRUE IN f[k] + SumOver(S \ {k}, f)

CloudX == [k \in Pixels |-> cloud_[k].x]
CloudY == [k \in Pixels |-> cloud_[k].y]
CloudZ == [k \in Pixels |-> cloud_[k].z]

\* ------------------------------------------------------------------ claims

\* C1 (as the specification states it): after process() on a frame meeting the
\* preconditions, a pixel is a blob member, exactly once, iff its component id is
\* not the sentinel and its component's pixel count lies in
\* [min_pts_per_cluster, max_cluster_size]; all other pixels are in no blob.
C1_MembersAreInBoundPixels ==
  (Done /\ Pre) =>
    \A k \in Pixels :
      Occurrences(k) =
        (IF dst_labels_[k] # Sentinel /\ InBounds(dst_labels_[k]) THEN 1 ELSE 0)

\* C2: after process() on a frame meeting the preconditions every blob has
\* between min_pts_per_cluster and max_cluster_size members, and no pixel of a
\* component whose count is outside these bounds is a member of any blob.
C2_SizeBounds ==
  (Done /\ Pre) =>
    /\ \A r \in BlobRefs :
         /\ min_pts_ <= Len(BlobAt(r).indices)
         /\ Len(BlobAt(r).indices) <= max_cluster_size_
    /\ \A k \in Pixels : ~InBounds(dst_labels_[k]) => Occurrences(k) = 0

C2_Witness ==
  /\ Done /\ Pre
  /\ \E k \in Pixels :
       /\ dst_labels_[k] # Sentinel
       /\ CompSize(dst_labels_[k]) < min_pts_
       /\ SumOver(CompPixels(dst_labels_[k]), CloudZ) # 0
  /\ \E r \in BlobRefs : Len(BlobAt(r).indices) = max_cluster_size_

\* C3: for any labels, points and thresholds no sentinel pixel is a member of a
\* blob, every blob has members, a frame whose pixels are all sentinel leaves
\* every list empty, and remap_ is never indexed with -1 (no access outside a
\* container), although the sentinel's slot accumulates sums and a count.
C3_SentinelNeverBlob ==
  /\ ~ub
  /\ Done =>
       /\ \A k \in Pixels : dst_labels_[k] = Sentinel => Occurrences(k) = 0
       /\ \A r \in BlobRefs : Members(r) # {}
       /\ (\A k \in Pixels : dst_labels_[k] = Sentinel) => blob_matrix_ = EmptyMatrix

C3_Witness ==
  /\ Done
  /\ InBounds(Sentinel)
  /\ region_sizes_[0] = CompSize(Sentinel)
  /\ means_storage_[0].x # 0
  /\ SumOver(CompPixels(Sentinel), CloudZ) # 0
  /\ BlobRefs # {}

\* C4: after a frame the ids of the blobs are pairwise distinct, are exactly
\* 0 .. (number of blobs - 1), and a.id < b.id iff a's label is smaller, or the
\* labels are equal and a precedes b in the label's list.
C4_Ids ==
  Done =>
    /\ {BlobAt(r).id : r \in BlobRefs} = 0 .. (Cardinality(BlobRefs) - 1)
    /\ \A a, b \in BlobRefs : a # b => BlobAt(a).id # BlobAt(b).id
    /\ \A a, b \in BlobRefs :
         (BlobAt(a).id < BlobAt(b).id) <=>
           \/ BlobAt(a).label < BlobAt(b).label
           \/ (BlobAt(a).label = BlobAt(b).label /\ a[1] = b[1] /\ a[2] < b[2])

C4_Witness ==
  /\ Done
  /\ \E l \in Labels : Len(blob_matrix_[l]) >= 2
  /\ \A l \in Labels : Len(blob_matrix_[l]) >= 1

\* the component a blob was made for, and the first pixel of a component
CompOf(r) == dst_labels_[BlobAt(r).indices[1]]
FirstPixel(cc) == SetMin(CompPixels(cc))

\* C5: after a frame the blob at position p of a label's list has lid = p, and
\* the list is in the raster order of the first pixel of the blobs' components.
C5_LidAndRasterOrder ==
  Done =>
    /\ \A r \in BlobRefs : BlobAt(r).lid = r[2] - 1
    /\ \A a, b \in BlobRefs :
         (a[1] = b[1] /\ FirstPixel(CompOf(a)) < FirstPixel(CompOf(b))) => a[2] < b[2]

C5_Witness ==
  /\ Done
  /\ \E l \in Labels :
       /\ Len(blob_matrix_[l]) >= 2
       /\ CompOf(<<l, 1>>) > CompOf(<<l, 2>>)
       /\ blob_matrix_[l][2].lid = 1

\* C6: after a frame every blob's centroid is the arithmetic mean of the points
\* at its member pixels: centroid * (member count) = sum of the members' points.
C6_CentroidIsMean ==
  Done =>
    \A r \in BlobRefs :
      LET blob == BlobAt(r)
          m    == Len(blob.indices)
      IN  /\ m > 0
          /\ blob.mean[1][2] > 0 /\ blob.mean[2][2] > 0 /\ blob.mean[3][2] > 0
          /\ blob.mean[1][1] * m = SumOver(Members(r), CloudX) * blob.mean[1][2]
          /\ blob.mean[2][1] * m = SumOver(Members(r), CloudY) * blob.mean[2][2]
          /\ blob.mean[3][1] * m = SumOver(Members(r), CloudZ) * blob.mean[3][2]

C6_Witness ==
  /\ Done
  /\ \E r \in BlobRefs :
       /\ Len(BlobAt(r).indices) >= 2
       /\ BlobAt(r).mean[1][2] > 1
       /\ BlobAt(r).mean[3][1] < 0

\* C7: whatever calls came before, the blob matrix a frame leaves is the one a
\* freshly constructed detector computes from the same label grid, component
\* grid, cloud and min_pts_per_cluster.
C7_HistoryIndependent ==
  Done =>
    /\ ~ub
    /\ blob_matrix_ =
         ProcessFrame(ConstructedBuffers, lmap_host_, dst_labels_, cloud_, min_pts_,
                      MAX_CLUST_SIZE).b.blob_matrix_

C7_Witness ==
  /\ Done
  /\ ncalls = 2
  /\ \A l \in Labels : Len(blob_matrix_[l]) >= 1

\* a step that is a failed process() call
FailedCall == last_call' = "failed" /\ ncalls' = ncalls + 1

\* C8 (as the specification states it): a process() call that fails leaves the
\* blob matrix the caller sees equal to the one before the call.
C8_FailedCallKeepsMatrix ==
  [][FailedCall => blob_matrix_' = blob_matrix_]_vars

\* C8 (amended): a process() call that fails in buffer allocation,
\* classification, smoothing, component labelling or a download leaves the blob
\* matrix either as it was before the call or with every label's list empty.
C8_FailedCallKeepsOrClears ==
  [][FailedCall => (blob_matrix_' = blob_matrix_ \/ blob_matrix_' = EmptyMatrix)]_vars

\* a failed call has emptied the matrix of a frame that had produced a blob
C8_Witness ==
  /\ last_call = "failed"
  /\ blob_matrix_ = EmptyMatrix
  /\ \E c \in Pixels : remap_[c] >= 0 /\ region_sizes_[c + 1] > 0

\* C9 (as the specification states it): whenever the constructor rejects its
\* file list (loadTree throws on a file at any position, or the assertion on an
\* empty list fails), neither the classifier object nor any tree has been
\* acquired at that moment.
C9_NothingAcquiredOnFailure ==
  pc \in {"throwing", "aborted"} => (~impl_.allocated /\ impl_.trees = 0)

\* C10: when no component straddles two labels, no lookup in remap_ yields a
\* position outside the label's list, every blob of list i has label i, and the
\* members of a blob all carry that label and one component id.
C10_RemapByComponentIsSafe ==
  Homogeneous(lmap_host_, dst_labels_) =>
    /\ ~ub
    /\ Done =>
         \A r \in BlobRefs :
           /\ BlobAt(r).label = r[1]
           /\ \A k \in Members(r) :
                /\ lmap_host_[k] = r[1]
                /\ dst_labels_[k] = CompOf(r)

C10_Witness ==
  /\ Done
  /\ Homogeneous(lmap_host_, dst_labels_)
  /\ \E l \in Labels : Len(blob_matrix_[l]) >= 2 /\ Len(blob_matrix_[l][2].indices) >= 2
  /\ \A l \in Labels : Len(blob_matrix_[l]) >= 1

====
